---------------------------- MODULE Spec2Model ----------------------------
(***************************************************************************)
(* Model of tracker.go (mod_to_wav): the module parser load_modfile with   *)
(* get_format / expected_filesizes, and the sequencer generate_wav with    *)
(* the resampler Sample.MakeWav.                                           *)
(*                                                                         *)
(* Spec        : generate_wav, one action per step of its row loop.        *)
(* SpecFair    : Spec with the fairness of sequential control flow.        *)
(* SpecFrames  : generate_wav's frame loop, one action per frame.          *)
(* SpecLoad    : load_modfile, one action per field group it reads.        *)
(* SpecMakeWav : Sample.MakeWav on short samples, frame by frame.          *)
(* SpecCount   : the frame count of Sample.MakeWav on samples of any size. *)
(***************************************************************************)
EXTENDS Integers, Sequences, FiniteSets, TLC

\* ------------------------------------------------------------------------
\* Program constants
\* ------------------------------------------------------------------------

POSITION_JUMP == 11
PATTERN_BREAK == 13
SET_SPEED == 15

LINES == 64
OUTPUT_RATE == 44100
AMIGA_CLOCK == 3563219
DEFAULT_TICKS == 6
DEFAULT_BPM == 125

\* ------------------------------------------------------------------------
\* Small arithmetic helpers
\* ------------------------------------------------------------------------

RECURSIVE Pow2(_)
Pow2(k) == IF k = 0 THEN 1 ELSE 2 * Pow2(k - 1)

Max(a, b) == IF a >= b THEN a ELSE b
Min(a, b) == IF a <= b THEN a ELSE b

\* ------------------------------------------------------------------------
\* float32 arithmetic (IEEE-754 single, round to nearest even) on positive
\* normal values.  A value is <<m, e>> with 2^23 <= m < 2^24, meaning m*2^e.
\* Every intermediate stays below 2^31.
\* ------------------------------------------------------------------------

F32_ONE == 8388608      \* 2^23, the smallest 24-bit mantissa
F32_TWO == 16777216     \* 2^24
F32_HALF == 4096        \* 2^12, the base the 24-bit mantissas are split in

RECURSIVE F32Norm(_, _)
F32Norm(m, e) == IF m >= F32_ONE THEN <<m, e>> ELSE F32Norm(2 * m, e - 1)

\* float32(n) for an integer 0 < n < 2^24 (exact)
float32(n) == F32Norm(n, 0)

\* round a quotient/product q with remainder r out of d to nearest even
F32Round(q, r, d, e) ==
    LET up == (2 * r > d) \/ (2 * r = d /\ q % 2 = 1)
        q1 == IF up THEN q + 1 ELSE q
    IN  IF q1 = F32_TWO THEN <<F32_ONE, e + 1>> ELSE <<q1, e>>

\* k more quotient bits of rem/d appended to q: <<q, rem>>
RECURSIVE F32LongDiv(_, _, _, _)
F32LongDiv(q, rem, d, k) ==
    IF k = 0 THEN <<q, rem>>
    ELSE IF 2 * rem >= d THEN F32LongDiv(2 * q + 1, 2 * rem - d, d, k - 1)
         ELSE F32LongDiv(2 * q, 2 * rem, d, k - 1)

\* x / y in float32
F32Div(x, y) ==
    LET m1 == x[1]
        m2 == y[1]
        k  == IF m1 >= m2 THEN 23 ELSE 24
        qr == F32LongDiv(m1 \div m2, m1 % m2, m2, k)
    IN  F32Round(qr[1], qr[2], m2, x[2] - y[2] - k)

\* x * y in float32; the 48-bit product is kept as t2 * 2^24 + low
F32Mul(x, y) ==
    LET a1 == x[1] \div F32_HALF
        a0 == x[1] % F32_HALF
        b1 == y[1] \div F32_HALF
        b0 == y[1] % F32_HALF
        p0 == a0 * b0
        t1 == a1 * b0 + a0 * b1 + (p0 \div F32_HALF)
        t2 == a1 * b1 + (t1 \div F32_HALF)
        low == (t1 % F32_HALF) * F32_HALF + (p0 % F32_HALF)
    IN  IF t2 >= F32_ONE
        THEN F32Round(t2, low, F32_TWO, x[2] + y[2] + 24)
        ELSE F32Round(2 * t2 + (low \div F32_ONE), low % F32_ONE, F32_ONE,
                      x[2] + y[2] + 23)

\* uint32(x): truncation toward zero (values here stay far below 2^31)
F32ToUint32(x) ==
    IF x[2] >= 0 THEN x[1] * Pow2(x[2])
    ELSE IF -x[2] >= 24 THEN 0
    ELSE x[1] \div Pow2(-x[2])

\* ------------------------------------------------------------------------
\* generate_wav: how long a line lasts
\* ------------------------------------------------------------------------

\* frames_needed for a line played at so_called_bpm / ticks_per_line
FramesNeeded(bpm, ticks) ==
    LET lines_per_minute == F32Div(F32Mul(float32(24), float32(bpm)), float32(ticks))
        seconds_per_line == F32Mul(F32Div(float32(1), lines_per_minute), float32(60))
    IN  F32ToUint32(F32Mul(float32(OUTPUT_RATE), seconds_per_line))

\* ------------------------------------------------------------------------
\* Bounds of the explored inputs
\* ------------------------------------------------------------------------

MaxTable == 2        \* longest order table explored by Spec
ActiveRows == 1      \* rows of a pattern that carry arbitrary notes
ActiveChannels == 2  \* channels of a row that carry arbitrary notes

\* ------------------------------------------------------------------------
\* Notes (load_note) and the notes the explored patterns are made of
\* ------------------------------------------------------------------------

\* load_note: four raw bytes to a Note
load_note(raw) ==
    [Sample    |-> (raw[1] \div 16) * 16 + (raw[3] \div 16),
     Period    |-> 256 * (raw[1] % 16) + raw[2],
     Effect    |-> raw[3] % 16,
     Parameter |-> raw[4]]

\* Note.ParameterLeft / Note.ParameterRight
ParameterLeft(note) == note.Parameter \div 16
ParameterRight(note) == note.Parameter % 16

EmptyNote == load_note(<<0, 0, 0, 0>>)

\* raw notes without effect: slot 1 or 2 with period 428 (0x1AC), and slot 2
\* without a pitch
PitchNotes ==
    { EmptyNote, load_note(<<0, 0, 32, 0>>) }
    \cup { load_note(<<1, 172, 16 * s, 0>>) : s \in { 1, 2 } }

\* raw notes that carry only a position jump or a pattern break
FlowNotes ==
    { EmptyNote }
    \cup { load_note(<<0, 0, POSITION_JUMP, v>>) : v \in { 0, 1 } }
    \cup { load_note(<<0, 0, PATTERN_BREAK, v>>) : v \in { 18, 100 } }

\* raw notes that carry only a set-speed effect
SpeedNotes ==
    { EmptyNote }
    \cup { load_note(<<0, 0, SET_SPEED, v>>) : v \in { 0, 31, 32 } }

\* raw notes with period 428 (0x1AC), with slot 1 or without an instrument
RetriggerNotes ==
    { EmptyNote, load_note(<<1, 172, 16, 0>>), load_note(<<1, 172, 0, 0>>) }

\* raw notes that carry a pitch, an instrument and an effect
MixedNotes ==
    { EmptyNote,
      load_note(<<1, 172, 16 + SET_SPEED, 12>>),
      load_note(<<1, 172, 32 + PATTERN_BREAK, 18>>) }

\* raw notes with period 428 (0x1AC) whose instrument nibbles (upper nibble of
\* byte 0, upper nibble of byte 2) give slot 16
SlotNotes == { EmptyNote, load_note(<<17, 172, 0, 0>>) }

\* a module's patterns are made of the notes of one pool
NotePools ==
    { PitchNotes, RetriggerNotes, FlowNotes, SpeedNotes, MixedNotes, SlotNotes }

\* the notes pattern cell (row, ch) may hold in a module made of pool
NotesAt(pool, row, ch) ==
    IF row < ActiveRows /\ ch < ActiveChannels THEN pool ELSE { EmptyNote }

\* the lines (one note per channel 0..n-1) row may hold
RECURSIVE LinesAt(_, _, _)
LinesAt(pool, row, n) ==
    IF n = 0 THEN { << >> }
    ELSE { Append(l, note) : l \in LinesAt(pool, row, n - 1),
                             note \in NotesAt(pool, row, n - 1) }

\* ------------------------------------------------------------------------
\* Instruments as generate_wav sees them (Sample after load_modfile)
\* ------------------------------------------------------------------------

NilSample == [Length |-> -1, DataLen |-> 0, RepOffset |-> 0, RepLength |-> 0]
MkSample(len, off, rep) ==
    [Length |-> len, DataLen |-> len * 2, RepOffset |-> off, RepLength |-> rep]

\* modfile.Samples of a 16-slot module: slot 0 is nil, slot 1 a one-shot of
\* 2 words, slot 2 a loop of 4 words, the other slots blank
SampleTables ==
    { [n \in 0..15 |->
         IF n = 0 THEN NilSample
         ELSE IF n = 1 THEN MkSample(2, 0, 0)
         ELSE IF n = 2 THEN MkSample(4, off, 2)
         ELSE MkSample(0, 0, 0)] : off \in { 3 } }

\* order tables: distinct pattern numbers, so that every (pattern, row) cell
\* is played at most once and its notes can be drawn when it is played
OrderTables == { [n \in 1..k |-> n - 1] : k \in 0..MaxTable }

\* a * b in uint32 (modulo 2^32) as <<high 16 bits, low 16 bits>>, for
\* a < 2^16 and b < 2^24
Mul32(a, b) ==
    LET t0 == a * (b % 256)
        t1 == a * ((b \div 256) % 256)
        t2 == a * (b \div 65536)
        lo == (t0 % 65536) + (t1 % 256) * 256
        hi == (t0 \div 65536) + (t1 \div 256) + (lo \div 65536) + t2
    IN  <<hi % 65536, lo % 65536>>

\* x / d in uint32 for x given as <<high 16 bits, low 16 bits>> and
\* 0 < d < 2^22 (the quotient must be below 2^31)
Div32(x, d) ==
    LET q1 == x[1] \div d
        x1 == (x[1] % d) * 256 + (x[2] \div 256)
        q2 == x1 \div d
        x2 == (x1 % d) * 256 + (x[2] % 256)
        q3 == x2 \div d
    IN  q1 * 65536 + q2 * 256 + q3

\* Sample.MakeWav: freq := 3563219 / uint32(period) and
\* new_frame_count := 44100 * uint32(len(self.Data)) / freq, in uint32
new_frame_count(dataLen, period) ==
    Div32(Mul32(OUTPUT_RATE, dataLen), AMIGA_CLOCK \div period)

\* wav.FrameCount() of sample.Wav[period] after MakeWav
WavFrameCount(sample, period) ==
    IF sample.Length < 2 THEN 0 ELSE new_frame_count(sample.DataLen, period)

\* ------------------------------------------------------------------------
\* State
\* ------------------------------------------------------------------------

VARIABLES
    \* generate_wav: the module it renders, and the pool its notes are of
    Table, Samples, ChannelCount, NotePool,
    \* generate_wav: locals
    channels, output_frame,
    ticks_per_line, so_called_bpm, next_ticks_per_line, next_bpm,
    table_index, linenum,
    position_jump_happening, position_jump_arg,
    pattern_break_happening, pattern_break_arg,
    frames_needed,
    \* position in generate_wav
    pc,
    \* the line being (or last) played: its notes, where it sits, the
    \* scheduled <<ticks, bpm>> before its first note and after each note
    line, row_index, row_linenum, sched

modVars == <<Table, Samples, ChannelCount, NotePool>>
tempoVars == <<ticks_per_line, so_called_bpm, next_ticks_per_line, next_bpm>>
posVars == <<table_index, linenum>>
flagVars == <<position_jump_happening, position_jump_arg,
              pattern_break_happening, pattern_break_arg>>
histVars == <<line, row_index, row_linenum, sched>>
runVars == <<channels, output_frame, tempoVars, posVars, flagVars,
             frames_needed, histVars>>

VARIABLES
    \* load_modfile: the input (what the bytes of the file decode to), its
    \* size, the bytes consumed so far, whether a read came short
    file, Filesize, rd, short_read,
    \* load_modfile: modfile fields and locals
    Format, SampleCount, positions, highest_pattern,
    PatternCount, notes_missing,
    small_filesize, large_filesize, Unread,
    \* the error load_modfile returns
    err

loadVars == <<file, Filesize, rd, short_read, Format, SampleCount, positions,
              highest_pattern, PatternCount, notes_missing,
              small_filesize, large_filesize, Unread, err>>

VARIABLES
    \* the frame loop seen frame by frame: n of "for n := 0; n < frames_needed",
    \* and per channel the position handed to sample_wav.Get in the last frame
    \* (-1: none)
    frame_n, frame_read,
    \* Sample.MakeWav: self.Data, len(self.Data), the period, new_frame_count
    \* and the frames set in the new wav
    mk_data, mk_len, mk_period, mk_count, mk_wav

frameVars == <<frame_n, frame_read>>
mkVars == <<mk_data, mk_len, mk_period, mk_count, mk_wav>>

vars == <<modVars, runVars, pc, loadVars, frameVars, mkVars>>

\* ------------------------------------------------------------------------
\* generate_wav, step by step
\* ------------------------------------------------------------------------

NewChannel == [Sample |-> 0, Period |-> 0, SamplePosition |-> 0]

\* the note's pitch and instrument applied to its channel
NoteTrigger(chan, note) ==
    IF note.Period # 0
    THEN [Sample |-> IF note.Sample # 0 THEN note.Sample ELSE chan.Sample,
          Period |-> note.Period,
          SamplePosition |-> 0]
    ELSE chan

\* SetSpeed with the tick range ending one early: 31 is taken for a tempo
SetSpeed_Below31(val, nticks, nbpm) ==
    IF val = 0 THEN <<nticks, nbpm>>
    ELSE IF val < 31 THEN <<val, nbpm>>
    ELSE <<nticks, val>>

\* SET_SPEED with parameter val: the scheduled <<ticks, bpm>>
SetSpeed(val, nticks, nbpm) ==
    IF val = 0 THEN <<nticks, nbpm>>
    ELSE IF val <= 31 THEN <<val, nbpm>>
    ELSE <<nticks, val>>

\* JumpScheduled that also takes a jump to the current index
JumpScheduled_AtOrAbove(val, idx) == val >= idx

\* POSITION_JUMP with parameter val seen at order-table index idx: is the
\* jump scheduled?
JumpScheduled(val, idx) == val > idx

\* PatternBreakArg that reads the parameter as one hexadecimal number
PatternBreakArg_Hex(note) == ParameterLeft(note) * 16 + ParameterRight(note)

\* PATTERN_BREAK: the line to resume at
PatternBreakArg(note) == ParameterLeft(note) * 10 + ParameterRight(note)

\* the body of "for ch, note := range line" for channel ch; st holds the
\* locals the loop writes
ProcessNote(st, ch, note, idx) ==
    LET sp == IF note.Effect = SET_SPEED
              THEN SetSpeed(note.Parameter, st.nticks, st.nbpm)
              ELSE <<st.nticks, st.nbpm>>
        jmp == note.Effect = POSITION_JUMP /\ JumpScheduled(note.Parameter, idx)
        brk == note.Effect = PATTERN_BREAK
    IN  [channels |-> [st.channels EXCEPT ![ch] = NoteTrigger(@, note)],
         nticks   |-> sp[1],
         nbpm     |-> sp[2],
         jmp      |-> IF jmp THEN TRUE ELSE st.jmp,
         jmpArg   |-> IF jmp THEN note.Parameter ELSE st.jmpArg,
         brk      |-> IF brk THEN TRUE ELSE st.brk,
         brkArg   |-> IF brk THEN PatternBreakArg(note) ELSE st.brkArg,
         sched    |-> Append(st.sched, sp)]

\* the note loop over the channels ch, ch+1, ... of the line
RECURSIVE ProcessLine(_, _, _, _)
ProcessLine(st, ln, ch, idx) ==
    IF ch >= Len(ln) THEN st
    ELSE ProcessLine(ProcessNote(st, ch, ln[ch + 1], idx), ln, ch + 1, idx)

\* LineTempo that takes what the line itself has scheduled
LineTempo_Scheduled(bpm, ticks, nbpm, nticks) == <<nbpm, nticks>>

\* the tempo the duration of the line is computed from: <<bpm, ticks>>
LineTempo(bpm, ticks, nbpm, nticks) == <<bpm, ticks>>

\* the frame loop of one line for one playing channel with a real sample:
\* n times "wrap or silence when the position has run out, else emit and
\* advance"
PlayFrames(chan, sample, n) ==
    LET F == WavFrameCount(sample, chan.Period)
        R == sample.RepOffset * 2
        p0 == chan.SamplePosition
        j == n - Max(F - p0, 0)     \* frames left once the position ran out
    IN  IF n = 0 THEN chan
        ELSE IF p0 + n <= F THEN [chan EXCEPT !.SamplePosition = p0 + n]
        ELSE IF sample.RepLength > 1
        THEN [chan EXCEPT !.SamplePosition =
                 IF R < F THEN R + ((j - 1) % (F - R)) + 1 ELSE R + 1]
        ELSE [chan EXCEPT !.Period = 0, !.SamplePosition = Max(p0, F)]

\* does the frame loop index modfile.Samples out of range for this channel?
SampleOutOfRange(chan, samples, n) ==
    n > 0 /\ chan.Period # 0 /\ chan.Sample \notin DOMAIN samples

\* one channel over the n frames of a line
RenderChannel(chan, samples, n) ==
    IF chan.Period = 0 THEN chan
    ELSE LET sample == samples[chan.Sample]
         IN  IF sample = NilSample \/ sample.Length < 2 THEN chan
             ELSE PlayFrames(chan, sample, n)

\* AdvancePosition without the step to the next line
AdvancePosition_NoLineStep(idx, ln, brk, brkArg, jmp, jmpArg) ==
    LET idx2 == IF brk THEN idx + 1 ELSE idx
        ln2 == IF brk THEN brkArg ELSE ln
        jmp2 == IF brk THEN FALSE ELSE jmp
        idx3 == IF jmp2 THEN jmpArg ELSE idx2
        ln3 == IF jmp2 THEN 0 ELSE ln2
    IN  IF ln3 >= LINES THEN <<idx3 + 1, 0>> ELSE <<idx3, ln3>>

\* the end of a line: <<table_index, linenum>> of the next one
AdvancePosition(idx, ln, brk, brkArg, jmp, jmpArg) ==
    LET ln1 == ln + 1
        idx2 == IF brk THEN idx + 1 ELSE idx
        ln2 == IF brk THEN brkArg ELSE ln1
        jmp2 == IF brk THEN FALSE ELSE jmp
        idx3 == IF jmp2 THEN jmpArg ELSE idx2
        ln3 == IF jmp2 THEN 0 ELSE ln2
    IN  IF ln3 >= LINES THEN <<idx3 + 1, 0>> ELSE <<idx3, ln3>>

\* the frame loop is not followed frame by frame
FramesIdle ==
    /\ frame_n = 0
    /\ frame_read = << >>

\* MakeWav is not followed on its own
MakeWavIdle ==
    /\ mk_data = << >>
    /\ mk_len = 0
    /\ mk_period = 0
    /\ mk_count = 0
    /\ mk_wav = << >>

\* load_modfile is not running
LoadIdle ==
    /\ file = [size |-> 0]
    /\ Filesize = 0
    /\ rd = 0
    /\ short_read = FALSE
    /\ Format = ""
    /\ SampleCount = 0
    /\ positions = 0
    /\ highest_pattern = 0
    /\ PatternCount = 0
    /\ notes_missing = FALSE
    /\ small_filesize = 0
    /\ large_filesize = 0
    /\ Unread = 0
    /\ err = "nil"

\* the locals of generate_wav before its loop
RunInit ==
    /\ channels = [c \in 0..(ChannelCount - 1) |-> NewChannel]
    /\ output_frame = 0
    /\ ticks_per_line = DEFAULT_TICKS
    /\ so_called_bpm = DEFAULT_BPM
    /\ next_ticks_per_line = DEFAULT_TICKS
    /\ next_bpm = DEFAULT_BPM
    /\ table_index = 0
    /\ linenum = 0
    /\ position_jump_happening = FALSE
    /\ position_jump_arg = 0
    /\ pattern_break_happening = FALSE
    /\ pattern_break_arg = 0
    /\ frames_needed = 0
    /\ line = << >>
    /\ row_index = 0
    /\ row_linenum = 0
    /\ sched = << >>

Init ==
    /\ Table \in OrderTables
    /\ Samples \in SampleTables
    /\ ChannelCount = 4
    /\ NotePool \in NotePools
    /\ RunInit
    /\ pc = "start"
    /\ LoadIdle
    /\ FramesIdle
    /\ MakeWavIdle

\* current_pattern := modfile.Patterns[modfile.Table[0]] before the loop
Start ==
    /\ pc = "start"
    /\ pc' = IF Len(Table) = 0 THEN "panic" ELSE "top"
    /\ UNCHANGED <<modVars, runVars, loadVars>>
    /\ UNCHANGED <<frameVars, mkVars>>

\* the loop is left once table_index is past the end of the table
Finish ==
    /\ pc = "top"
    /\ ~(table_index < Len(Table))
    /\ pc' = "done"
    /\ UNCHANGED <<modVars, runVars, loadVars>>
    /\ UNCHANGED <<frameVars, mkVars>>

\* the line at (table_index, linenum) is picked and its notes are applied
ReadLine ==
    /\ pc = "top"
    /\ table_index < Len(Table)
    /\ \E ln \in LinesAt(NotePool, linenum, ChannelCount) :
         LET st0 == [channels |-> channels,
                     nticks |-> next_ticks_per_line, nbpm |-> next_bpm,
                     jmp |-> position_jump_happening, jmpArg |-> position_jump_arg,
                     brk |-> pattern_break_happening, brkArg |-> pattern_break_arg,
                     sched |-> << <<next_ticks_per_line, next_bpm>> >>]
             st == ProcessLine(st0, ln, 0, table_index)
         IN  /\ line' = ln
             /\ channels' = st.channels
             /\ next_ticks_per_line' = st.nticks
             /\ next_bpm' = st.nbpm
             /\ position_jump_happening' = st.jmp
             /\ position_jump_arg' = st.jmpArg
             /\ pattern_break_happening' = st.brk
             /\ pattern_break_arg' = st.brkArg
             /\ sched' = st.sched
    /\ row_index' = table_index
    /\ row_linenum' = linenum
    /\ pc' = "render"
    /\ UNCHANGED <<modVars, output_frame, ticks_per_line, so_called_bpm,
                   posVars, frames_needed, loadVars>>
    /\ UNCHANGED <<frameVars, mkVars>>

\* the duration of the line, its frame loop, and the move to the next line
RenderLine ==
    /\ pc = "render"
    /\ LET tempo == LineTempo(so_called_bpm, ticks_per_line,
                              next_bpm, next_ticks_per_line)
           n == FramesNeeded(tempo[1], tempo[2])
       IN  /\ frames_needed' = n
           /\ output_frame' = output_frame + n
           /\ IF \E c \in DOMAIN channels : SampleOutOfRange(channels[c], Samples, n)
              THEN /\ pc' = "panic"
                   /\ UNCHANGED <<channels, tempoVars, posVars, flagVars>>
              ELSE /\ pc' = "top"
                   /\ channels' = [c \in DOMAIN channels |->
                                     RenderChannel(channels[c], Samples, n)]
                   /\ ticks_per_line' = next_ticks_per_line
                   /\ so_called_bpm' = next_bpm
                   /\ LET np == AdvancePosition(table_index, linenum,
                                    pattern_break_happening, pattern_break_arg,
                                    position_jump_happening, position_jump_arg)
                      IN  /\ table_index' = np[1]
                          /\ linenum' = np[2]
                   /\ pattern_break_happening' = FALSE
                   /\ position_jump_happening' = FALSE
                   /\ UNCHANGED <<next_ticks_per_line, next_bpm,
                                  position_jump_arg, pattern_break_arg>>
    /\ UNCHANGED <<modVars, histVars, loadVars>>
    /\ UNCHANGED <<frameVars, mkVars>>

Next ==
    \/ Start
    \/ Finish
    \/ ReadLine
    \/ RenderLine

Spec == Init /\ [][Next]_vars

\* control moves on from a point of generate_wav that has a next statement
\* (every step of Next is such a move, and one is possible at each of these
\* points)
Proceed ==
    /\ pc \in {"start", "top", "render"}
    /\ pc' \in {"top", "render", "done", "panic"}
    /\ pc' # pc

\* generate_wav is sequential code: it does not stop between two statements
SpecFair == Spec /\ WF_pc(Proceed)

\* ------------------------------------------------------------------------
\* load_modfile: the files it is run on
\* ------------------------------------------------------------------------

MaxLength == 2       \* longest declared length (in words) of instrument 1
MaxPatternNo == 1    \* highest pattern number in the first order-table entry

\* FormatOf whose default case forgets to clear the format string
FormatOf_KeepsUnknownTag(tag) ==
    IF tag \in {"M.K.", "FLT4", "M!K!", "4CHN"} THEN <<tag, 4, 32>>
    ELSE IF tag = "6CHN" THEN <<tag, 6, 32>>
    ELSE IF tag \in {"OCTA", "FLT8", "CD81", "8CHN"} THEN <<tag, 8, 32>>
    ELSE <<tag, 4, 16>>

\* get_format's switch: <<format, channels, instruments>> for the 4 bytes read
FormatOf(tag) ==
    IF tag \in {"M.K.", "FLT4", "M!K!", "4CHN"} THEN <<tag, 4, 32>>
    ELSE IF tag = "6CHN" THEN <<tag, 6, 32>>
    ELSE IF tag \in {"OCTA", "FLT8", "CD81", "8CHN"} THEN <<tag, 8, 32>>
    ELSE <<"", 4, 16>>

\* size constants of expected_filesizes
TITLE == 20
SAMPLEMETA == 30
EXTRAMETA == 2
TABLE == 128
FORMAT == 4
NOTE == 4
FORMAT_OFFSET == 1080

\* What the bytes of a file decode to.  tag: the 4 bytes at offset 1080 (when
\* the file has them); len1, len2, lenRest: the declared length of instrument
\* 1, of instrument 2 and of every later one; positions: the position-count
\* byte; order1, orderFill: the first byte of the 128-byte order region and
\* every later one.
FileContents ==
    [tag : {"M.K.", "6CHN", "OCTA", "XXXX"},
     len1 : 0..MaxLength, len2 : {0, 1}, lenRest : {0, 1},
     positions : {0, 1, 2, 129},
     order1 : 0..MaxPatternNo, orderFill : {0, 2}]

FileLength(f, n) == IF n = 1 THEN f.len1 ELSE IF n = 2 THEN f.len2 ELSE f.lenRest
FileOrder(f, n) == IF n = 0 THEN f.order1 ELSE f.orderFill

\* the size of the well-formed file with this content, in which an instrument
\* of declared length 0 takes blankBytes bytes of waveform
RECURSIVE LayoutWaveBytes(_, _, _)
LayoutWaveBytes(f, n, blankBytes) ==
    IF n <= 0 THEN 0
    ELSE LayoutWaveBytes(f, n - 1, blankBytes)
         + (IF FileLength(f, n) = 0 THEN blankBytes ELSE 2 * FileLength(f, n))

LayoutSize(f, blankBytes) ==
    LET fmt == FormatOf(f.tag)
        used == Min(f.positions, TABLE)
        top == IF used = 0 THEN 0
               ELSE IF used = 1 THEN f.order1
               ELSE Max(f.order1, f.orderFill)
    IN  TITLE + SAMPLEMETA * (fmt[3] - 1) + EXTRAMETA + TABLE
        + (IF fmt[1] = "" THEN 0 ELSE FORMAT)
        + fmt[2] * LINES * NOTE * (top + 1)
        + LayoutWaveBytes(f, fmt[3] - 1, blankBytes)

\* the sizes a file of this content is tried with: well-formed under either
\* convention, a byte short, with trailing bytes, and cut inside the title,
\* the header, or just before and after the format tag
FileSizes(f) ==
    { 0, 19, 20, 700, 1083, 1084, 1500,
      LayoutSize(f, 0) - 1, LayoutSize(f, 0), LayoutSize(f, 0) + 1,
      LayoutSize(f, 2), LayoutSize(f, 2) + 2 }

FileInputs ==
    UNION { { [size |-> sz] @@ fc : sz \in FileSizes(fc) } : fc \in FileContents }

\* ------------------------------------------------------------------------
\* load_modfile, step by step
\* ------------------------------------------------------------------------

\* a read of k bytes from the stream is complete
CanRead(k) == rd + k <= Filesize

\* the stream position after a read of k bytes, complete or not
AfterRead(k) == Min(rd + k, Filesize)

\* a Sample as load_sample_info returns it (Data is read later)
LoadedSampleInfo(f, n) ==
    [Length |-> FileLength(f, n), DataLen |-> 0, RepOffset |-> 0, RepLength |-> 0]

\* the loop over the 128 order bytes, from byte n on with highest_pattern =
\* highest: each byte below len(Table) that exceeds highest_pattern replaces
\* it, so the loop ends with the largest of highest and those bytes
HighestPattern(f, tableLen, n, highest) ==
    LET seen == {highest} \cup
                { FileOrder(f, k) : k \in { j \in n..(TABLE - 1) : j < tableLen } }
    IN  CHOOSE m \in seen : \A v \in seen : v <= m

\* LoadedTable that stores each order byte one entry early
LoadedTable_OffByOne(f, tableLen) ==
    [n \in 1..tableLen |-> IF n < TABLE THEN FileOrder(f, n) ELSE 0]

\* modfile.Table after the loop: the first 128 entries come from the file,
\* the later ones keep the zero make() gave them
LoadedTable(f, tableLen) ==
    [n \in 1..tableLen |-> IF n - 1 < TABLE THEN FileOrder(f, n - 1) ELSE 0]

\* the sum of sample.Length over modfile.Samples[1:]
RECURSIVE SumLengths(_, _)
SumLengths(samples, n) ==
    IF n <= 0 THEN 0 ELSE SumLengths(samples, n - 1) + samples[n].Length * 2

\* ExpectedFilesizes that counts the format string whether it is there or not
ExpectedFilesizes_AlwaysFormat(samples, sampleCount, channelCount, patternCount, format) ==
    LET blank_samples ==
            Cardinality({ n \in 1..(sampleCount - 1) : samples[n].Length = 0 })
        naive == TITLE + SAMPLEMETA * (sampleCount - 1)
                 + EXTRAMETA + TABLE + FORMAT
                 + channelCount * LINES * NOTE * patternCount
                 + SumLengths(samples, sampleCount - 1)
    IN  <<naive, naive + blank_samples * 2>>

\* expected_filesizes: <<small, large>>
ExpectedFilesizes(samples, sampleCount, channelCount, patternCount, format) ==
    LET blank_samples ==
            Cardinality({ n \in 1..(sampleCount - 1) : samples[n].Length = 0 })
        naive0 == TITLE + SAMPLEMETA * (sampleCount - 1)
                  + EXTRAMETA + TABLE + FORMAT
                  + channelCount * LINES * NOTE * patternCount
                  + SumLengths(samples, sampleCount - 1)
        naive == IF format = "" THEN naive0 - 4 ELSE naive0
    IN  <<naive, naive + blank_samples * 2>>

\* CorrectedLength that never corrects
CorrectedLength_Never(len, filesize, large) == len

\* CorrectedLength that corrects under the other convention
CorrectedLength_WhenSmall(len, filesize, large) ==
    IF len = 0 /\ filesize # large THEN 1 ELSE len

\* the correction for blank samples, and the size of Data
CorrectedLength(len, filesize, large) ==
    IF len = 0 /\ filesize = large THEN 1 ELSE len

InitLoad ==
    /\ file \in FileInputs
    /\ Filesize = file.size
    /\ rd = 0
    /\ short_read = FALSE
    /\ Format = ""
    /\ SampleCount = 0
    /\ positions = 0
    /\ highest_pattern = 0
    /\ PatternCount = 0
    /\ notes_missing = FALSE
    /\ small_filesize = 0
    /\ large_filesize = 0
    /\ Unread = 0
    /\ err = "nil"
    /\ Table = << >>
    /\ Samples = << >>
    /\ ChannelCount = 0
    /\ NotePool = { EmptyNote }
    /\ RunInit
    /\ FramesIdle
    /\ MakeWavIdle
    /\ pc = "get_format"

\* Stat, Seek(1080), get_format, Seek(0): the error of get_format is dropped
GetFormat ==
    /\ pc = "get_format"
    /\ LET ok == FORMAT_OFFSET + 4 <= Filesize
           fmt == IF ok THEN FormatOf(file.tag) ELSE <<"", 0, 0>>
       IN  /\ Format' = fmt[1]
           /\ ChannelCount' = fmt[2]
           /\ SampleCount' = fmt[3]
           /\ short_read' = ~ok
    /\ pc' = "title"
    /\ UNCHANGED <<Table, Samples, NotePool, runVars, file, Filesize, rd,
                   positions, highest_pattern, PatternCount, notes_missing,
                   small_filesize, large_filesize, Unread, err>>
    /\ UNCHANGED <<frameVars, mkVars>>

\* load_string(infile, 20)
LoadTitle ==
    /\ pc = "title"
    /\ rd' = AfterRead(TITLE)
    /\ IF CanRead(TITLE)
       THEN pc' = "sample_info" /\ UNCHANGED <<err, short_read>>
       ELSE pc' = "failed" /\ err' = "truncated" /\ short_read' = TRUE
    /\ UNCHANGED <<modVars, runVars, file, Filesize, Format, SampleCount,
                   positions, highest_pattern, PatternCount, notes_missing,
                   small_filesize, large_filesize, Unread>>
    /\ UNCHANGED <<frameVars, mkVars>>

\* make([]*Sample, SampleCount), Samples[0] = nil, and the loop of
\* load_sample_info over the slots 1..SampleCount-1
LoadSampleInfo ==
    /\ pc = "sample_info"
    /\ IF SampleCount = 0
       THEN /\ pc' = "load_panic"
            /\ UNCHANGED <<Samples, rd, err, short_read>>
       ELSE LET fit == Min((Filesize - rd) \div SAMPLEMETA, SampleCount - 1)
            IN  /\ Samples' = [n \in 0..(SampleCount - 1) |->
                                 IF 1 <= n /\ n <= fit
                                 THEN LoadedSampleInfo(file, n) ELSE NilSample]
                /\ rd' = AfterRead(SAMPLEMETA * (SampleCount - 1))
                /\ IF fit = SampleCount - 1
                   THEN pc' = "positions" /\ UNCHANGED <<err, short_read>>
                   ELSE pc' = "failed" /\ err' = "truncated" /\ short_read' = TRUE
    /\ UNCHANGED <<Table, ChannelCount, NotePool, runVars, file, Filesize,
                   Format, SampleCount, positions, highest_pattern,
                   PatternCount, notes_missing, small_filesize,
                   large_filesize, Unread>>
    /\ UNCHANGED <<frameVars, mkVars>>

\* the position count and the byte after it
LoadPositions ==
    /\ pc = "positions"
    /\ rd' = AfterRead(EXTRAMETA)
    /\ IF CanRead(EXTRAMETA)
       THEN /\ positions' = file.positions
            /\ pc' = "table"
            /\ UNCHANGED <<err, short_read>>
       ELSE /\ pc' = "failed" /\ err' = "truncated" /\ short_read' = TRUE
            /\ UNCHANGED positions
    /\ UNCHANGED <<modVars, runVars, file, Filesize, Format, SampleCount,
                   highest_pattern, PatternCount, notes_missing,
                   small_filesize, large_filesize, Unread>>
    /\ UNCHANGED <<frameVars, mkVars>>

\* modfile.Table = make([]int, positions) and the loop over the 128 order bytes
LoadTable ==
    /\ pc = "table"
    /\ rd' = AfterRead(TABLE)
    /\ IF CanRead(TABLE)
       THEN /\ Table' = LoadedTable(file, positions)
            /\ highest_pattern' = HighestPattern(file, positions, 0, 0)
            /\ pc' = "skip_format"
            /\ UNCHANGED <<err, short_read>>
       ELSE /\ pc' = "failed" /\ err' = "truncated" /\ short_read' = TRUE
            /\ UNCHANGED <<Table, highest_pattern>>
    /\ UNCHANGED <<Samples, ChannelCount, NotePool, runVars, file, Filesize,
                   Format, SampleCount, positions, PatternCount, notes_missing,
                   small_filesize, large_filesize, Unread>>
    /\ UNCHANGED <<frameVars, mkVars>>

\* the four ReadByte calls that skip the format string; their errors are dropped
SkipFormat ==
    /\ pc = "skip_format"
    /\ IF Format # ""
       THEN /\ rd' = AfterRead(FORMAT)
            /\ short_read' = (short_read \/ ~CanRead(FORMAT))
       ELSE UNCHANGED <<rd, short_read>>
    /\ pc' = "patterns"
    /\ UNCHANGED <<modVars, runVars, file, Filesize, Format, SampleCount,
                   positions, highest_pattern, PatternCount, notes_missing,
                   small_filesize, large_filesize, Unread, err>>
    /\ UNCHANGED <<frameVars, mkVars>>

\* make([]*Pattern, highest_pattern + 1) and load_note for every cell; the
\* error of load_note is dropped and the cell stays nil
LoadPatterns ==
    /\ pc = "patterns"
    /\ LET bytes == (highest_pattern + 1) * LINES * ChannelCount * NOTE
       IN  /\ PatternCount' = highest_pattern + 1
           /\ rd' = AfterRead(bytes)
           /\ notes_missing' = ~CanRead(bytes)
           /\ short_read' = (short_read \/ ~CanRead(bytes))
    /\ pc' = "check_size"
    /\ UNCHANGED <<modVars, runVars, file, Filesize, Format, SampleCount,
                   positions, highest_pattern, small_filesize, large_filesize,
                   Unread, err>>
    /\ UNCHANGED <<frameVars, mkVars>>

\* expected_filesizes and the comparison with the real size
CheckSize ==
    /\ pc = "check_size"
    /\ LET sizes == ExpectedFilesizes(Samples, SampleCount, ChannelCount,
                                      PatternCount, Format)
       IN  /\ small_filesize' = sizes[1]
           /\ large_filesize' = sizes[2]
           /\ IF sizes[1] # Filesize /\ sizes[2] # Filesize
              THEN pc' = "failed" /\ err' = "filesize"
              ELSE pc' = "sample_data" /\ UNCHANGED err
    /\ UNCHANGED <<modVars, runVars, file, Filesize, rd, short_read, Format,
                   SampleCount, positions, highest_pattern, PatternCount,
                   notes_missing, Unread>>
    /\ UNCHANGED <<frameVars, mkVars>>

\* the loop that corrects blank lengths and reads every sample's Data
LoadSampleData ==
    /\ pc = "sample_data"
    /\ LET corrected == [n \in DOMAIN Samples |->
                           IF n = 0 THEN Samples[n]
                           ELSE [Samples[n] EXCEPT
                                   !.Length = CorrectedLength(@, Filesize, large_filesize)]]
           want == SumLengths(corrected, SampleCount - 1)
       IN  /\ rd' = AfterRead(want)
           /\ IF CanRead(want)
              THEN /\ Samples' = [n \in DOMAIN Samples |->
                                    IF n = 0 THEN Samples[n]
                                    ELSE [corrected[n] EXCEPT !.DataLen = corrected[n].Length * 2]]
                   /\ pc' = "count_unread"
                   /\ UNCHANGED <<err, short_read>>
              ELSE /\ Samples' = corrected
                   /\ pc' = "failed" /\ err' = "truncated" /\ short_read' = TRUE
    /\ UNCHANGED <<Table, ChannelCount, NotePool, runVars, file, Filesize,
                   Format, SampleCount, positions, highest_pattern,
                   PatternCount, notes_missing, small_filesize,
                   large_filesize, Unread>>
    /\ UNCHANGED <<frameVars, mkVars>>

\* the loop that counts the bytes left, and the successful return
CountUnread ==
    /\ pc = "count_unread"
    /\ Unread' = Filesize - rd
    /\ rd' = Filesize
    /\ pc' = "loaded"
    /\ UNCHANGED <<modVars, runVars, file, Filesize, short_read, Format,
                   SampleCount, positions, highest_pattern, PatternCount,
                   notes_missing, small_filesize, large_filesize, err>>
    /\ UNCHANGED <<frameVars, mkVars>>

NextLoad ==
    \/ GetFormat
    \/ LoadTitle
    \/ LoadSampleInfo
    \/ LoadPositions
    \/ LoadTable
    \/ SkipFormat
    \/ LoadPatterns
    \/ CheckSize
    \/ LoadSampleData
    \/ CountUnread

SpecLoad == InitLoad /\ [][NextLoad]_vars

\* ------------------------------------------------------------------------
\* generate_wav: the frame loop, frame by frame
\* ------------------------------------------------------------------------

FrameRows == 2       \* rows whose frames are followed one by one

\* the notes channel 0 may hold in those rows: none, slot 1 at period 428
\* (0x1AC), slot 1 at period 113 (0x071)
FrameNotes ==
    { EmptyNote, load_note(<<1, 172, 16, 0>>), load_note(<<0, 113, 16, 0>>) }

\* modfile.Samples of a 16-slot module whose slot 1 is a sample of 4 words with
\* a loop (loop offset 0, 3 or 30 words, loop length 1 or 2 words) or a sample
\* of 1 word
FrameSampleTables ==
    { [n \in 0..15 |->
         IF n = 0 THEN NilSample ELSE IF n = 1 THEN smp ELSE MkSample(0, 0, 0)] :
      smp \in { MkSample(4, off, rep) : off \in { 0, 3, 30 }, rep \in { 1, 2 } }
              \cup { MkSample(1, 0, 0) } }

\* the line whose set-speed effects in the channels 2 and 3 bring 1 tick per
\* line and 255 bpm into force from the next line on
FastLine ==
    << EmptyNote, EmptyNote,
       load_note(<<0, 0, SET_SPEED, 1>>), load_note(<<0, 0, SET_SPEED, 255>>) >>

\* FrameStep whose loop-back restarts the sample from its first frame
FrameStep_LoopRestarts(chan, samples) ==
    IF chan.Period = 0 THEN [chan |-> chan, read |-> -1]
    ELSE LET sample == samples[chan.Sample]
             F == WavFrameCount(sample, chan.Period)
             pos == chan.SamplePosition
         IN  IF sample = NilSample \/ sample.Length < 2
             THEN [chan |-> chan, read |-> -1]
             ELSE IF pos >= F /\ sample.RepLength <= 1
             THEN [chan |-> [chan EXCEPT !.Period = 0], read |-> -1]
             ELSE LET at == IF pos >= F THEN 0 ELSE pos
                  IN  [chan |-> [chan EXCEPT !.SamplePosition = at + 1],
                       read |-> at]

\* the body of the frame loop for one channel: the channel after the frame,
\* and the position handed to sample_wav.Get (-1 when Get is not reached)
FrameStep(chan, samples) ==
    IF chan.Period = 0 THEN [chan |-> chan, read |-> -1]
    ELSE LET sample == samples[chan.Sample]
             F == WavFrameCount(sample, chan.Period)
             pos == chan.SamplePosition
         IN  IF sample = NilSample \/ sample.Length < 2
             THEN [chan |-> chan, read |-> -1]
             ELSE IF pos >= F /\ sample.RepLength <= 1
             THEN [chan |-> [chan EXCEPT !.Period = 0], read |-> -1]
             ELSE LET at == IF pos >= F THEN sample.RepOffset * 2 ELSE pos
                  IN  [chan |-> [chan EXCEPT !.SamplePosition = at + 1],
                       read |-> at]

\* generate_wav at the top of line 1 of the first pattern, after a line 0
\* that was FastLine: no channel plays yet, 1 tick and 255 bpm are in force
InitFrames ==
    /\ Table = <<0>>
    /\ Samples \in FrameSampleTables
    /\ ChannelCount = 4
    /\ NotePool = FrameNotes
    /\ channels = [c \in 0..3 |-> NewChannel]
    /\ output_frame = FramesNeeded(DEFAULT_BPM, DEFAULT_TICKS)
    /\ ticks_per_line = 1
    /\ so_called_bpm = 255
    /\ next_ticks_per_line = 1
    /\ next_bpm = 255
    /\ table_index = 0
    /\ linenum = 1
    /\ position_jump_happening = FALSE
    /\ position_jump_arg = 0
    /\ pattern_break_happening = FALSE
    /\ pattern_break_arg = 0
    /\ frames_needed = FramesNeeded(DEFAULT_BPM, DEFAULT_TICKS)
    /\ line = FastLine
    /\ row_index = 0
    /\ row_linenum = 0
    /\ sched = << <<6, 125>>, <<6, 125>>, <<6, 125>>, <<1, 125>>, <<1, 255>> >>
    /\ pc = "top"
    /\ frame_n = 0
    /\ frame_read = [c \in 0..3 |-> -1]
    /\ LoadIdle
    /\ MakeWavIdle

\* the note loop of a line whose channel 0 holds a note of FrameNotes, and the
\* duration of the line
FrameRowNotes ==
    /\ pc = "top"
    /\ table_index < Len(Table)
    /\ linenum <= FrameRows
    /\ \E note \in NotePool :
         LET ln == << note, EmptyNote, EmptyNote, EmptyNote >>
             st0 == [channels |-> channels,
                     nticks |-> next_ticks_per_line, nbpm |-> next_bpm,
                     jmp |-> position_jump_happening, jmpArg |-> position_jump_arg,
                     brk |-> pattern_break_happening, brkArg |-> pattern_break_arg,
                     sched |-> << <<next_ticks_per_line, next_bpm>> >>]
             st == ProcessLine(st0, ln, 0, table_index)
         IN  /\ line' = ln
             /\ channels' = st.channels
             /\ sched' = st.sched
    /\ row_index' = table_index
    /\ row_linenum' = linenum
    /\ frames_needed' = FramesNeeded(so_called_bpm, ticks_per_line)
    /\ frame_n' = 0
    /\ pc' = "frame"
    /\ UNCHANGED <<modVars, output_frame, tempoVars, posVars, flagVars,
                   frame_read, loadVars, mkVars>>

\* one pass of "for n := uint32(0); n < frames_needed; n++"
FrameTick ==
    /\ pc = "frame"
    /\ frame_n < frames_needed
    /\ output_frame' = output_frame + 1
    /\ channels' = [c \in DOMAIN channels |-> FrameStep(channels[c], Samples).chan]
    /\ frame_read' = [c \in DOMAIN channels |-> FrameStep(channels[c], Samples).read]
    /\ frame_n' = frame_n + 1
    /\ UNCHANGED <<modVars, tempoVars, posVars, flagVars, frames_needed,
                   histVars, pc, loadVars, mkVars>>

\* the frame loop is over: the end of the line
FrameRowEnd ==
    /\ pc = "frame"
    /\ ~(frame_n < frames_needed)
    /\ ticks_per_line' = next_ticks_per_line
    /\ so_called_bpm' = next_bpm
    /\ LET np == AdvancePosition(table_index, linenum,
                     pattern_break_happening, pattern_break_arg,
                     position_jump_happening, position_jump_arg)
       IN  /\ table_index' = np[1]
           /\ linenum' = np[2]
    /\ pattern_break_happening' = FALSE
    /\ position_jump_happening' = FALSE
    /\ pc' = "top"
    /\ UNCHANGED <<modVars, channels, output_frame, next_ticks_per_line,
                   next_bpm, position_jump_arg, pattern_break_arg,
                   frames_needed, histVars, frameVars, loadVars, mkVars>>

NextFrames ==
    \/ FrameRowNotes
    \/ FrameTick
    \/ FrameRowEnd

SpecFrames == InitFrames /\ [][NextFrames]_vars

\* ------------------------------------------------------------------------
\* Sample.MakeWav
\* ------------------------------------------------------------------------

MkWords == 2         \* length (in words) of the samples whose frames are made

\* the raw bytes of those samples
MkBytes == { 0, 127, 128, 255 }

\* the periods they are resampled at
MkPeriods == { 113, 428 }

\* len(self.Data) and period of the samples whose frame count is computed:
\* Length 1 (no wav), short samples, the largest sample there is (65535
\* words) and the lengths around 2^32 / 44100; the smallest and largest
\* period of a note and periods in between
CountLengths == { 2, 4, 8, 16, 97390, 97392, 131070 }
CountPeriods == { 1, 20, 21, 80, 113, 120, 428, 4095 }

\* conversion to int16: the value wraps into -32768 .. 32767
Int16(x) == ((x + 32768) % 65536) - 32768

\* byte_to_int16
byte_to_int16(val) ==
    LET val_as_int16 == IF val > 127 THEN val - 256 ELSE val
    IN  Int16(Int16(val_as_int16 * 256) + val_as_int16 + 128)

\* the frame the loop of MakeWav sets at n, 0 <= n <= count - 2.  index_f is
\* kept as the fraction num / den; the float64 arithmetic of the code gives
\* the same index and the same new_val for the samples made here
InterpolatedFrame(data, count, n) ==
    LET num == n * (Len(data) - 1)
        den == count - 1
        index == num \div den
        old_val == byte_to_int16(data[index + 1])
        old_val_next == byte_to_int16((data[index + 1] + 1) % 256)
        diff == Int16(old_val_next - old_val)
        new_val_num == old_val * den + diff * (num % den)
    IN  IF new_val_num >= 0 THEN new_val_num \div den
        ELSE -((-new_val_num) \div den)

\* the frames of the wav after MakeWav: frame count - 1 set directly, the
\* others by the loop
MadeWav(data, count) ==
    [n \in 0..(count - 1) |->
        IF n = count - 1 THEN byte_to_int16(data[Len(data)])
        ELSE InterpolatedFrame(data, count, n)]

\* nothing but MakeWav runs
OnlyMakeWav ==
    /\ Table = << >>
    /\ Samples = << >>
    /\ ChannelCount = 0
    /\ NotePool = { EmptyNote }
    /\ RunInit
    /\ LoadIdle
    /\ FramesIdle

\* MakeWav is called for a period on a sample of 2 * MkWords bytes that has
\* no wav for it yet
InitMakeWav ==
    /\ mk_data \in [1..(2 * MkWords) -> MkBytes]
    /\ mk_len = 2 * MkWords
    /\ mk_period \in MkPeriods
    /\ mk_count = 0
    /\ mk_wav = << >>
    /\ pc = "mk_start"
    /\ OnlyMakeWav

\* MakeWav is called for a period on a sample of which only len(self.Data)
\* is followed (the bytes do not enter the frame count)
InitCount ==
    /\ mk_data = << >>
    /\ mk_len \in CountLengths
    /\ mk_period \in CountPeriods
    /\ mk_count = 0
    /\ mk_wav = << >>
    /\ pc = "mk_start"
    /\ OnlyMakeWav

\* MakeWav up to w.New: the empty wav of a sample with Length < 2, else freq
\* and new_frame_count
CountFrames ==
    /\ pc = "mk_start"
    /\ IF mk_len \div 2 < 2
       THEN mk_count' = 0 /\ pc' = "mk_done"
       ELSE mk_count' = new_frame_count(mk_len, mk_period) /\ pc' = "mk_counted"
    /\ UNCHANGED <<modVars, runVars, loadVars, frameVars,
                   mk_data, mk_len, mk_period, mk_wav>>

\* MakeWav from set_frame of the final frame to the end of its loop, for a
\* wav of 2 frames or more
SetFrames ==
    /\ pc = "mk_counted"
    /\ mk_data # << >>
    /\ mk_count >= 2
    /\ mk_wav' = MadeWav(mk_data, mk_count)
    /\ pc' = "mk_done"
    /\ UNCHANGED <<modVars, runVars, loadVars, frameVars,
                   mk_data, mk_len, mk_period, mk_count>>

NextMakeWav ==
    \/ CountFrames
    \/ SetFrames

SpecMakeWav == InitMakeWav /\ [][NextMakeWav]_vars

SpecCount == InitCount /\ [][CountFrames]_vars

\* ------------------------------------------------------------------------
\* Properties of generate_wav
\* ------------------------------------------------------------------------

\* a line has been played to its end: line, row_index, row_linenum and sched
\* describe it, table_index and linenum are where the run continues
RowPlayed == pc \in {"top", "done"} /\ line # << >>

\* the notes of the line have been applied, its frames not yet produced
NotesApplied == pc = "render"

BreaksOf(ln) == { c \in 1..Len(ln) : ln[c].Effect = PATTERN_BREAK }
JumpsOf(ln) == { c \in 1..Len(ln) : ln[c].Effect = POSITION_JUMP }
EffectiveJumpsOf(ln, idx) == { c \in JumpsOf(ln) : ln[c].Parameter > idx }
LastOf(S) == CHOOSE c \in S : \A d \in S : d <= c

Position == <<table_index, linenum>>

\* where the run continues after a line without break or jump
NaturalAdvance(idx, ln) == IF ln + 1 >= 64 THEN <<idx + 1, 0>> ELSE <<idx, ln + 1>>

\* where the model continues after the line ln played at (idx, lnum)
PositionAfter(ln, idx, lnum) ==
    LET st0 == [channels |-> [c \in 0..(Len(ln) - 1) |-> NewChannel],
                nticks |-> DEFAULT_TICKS, nbpm |-> DEFAULT_BPM,
                jmp |-> FALSE, jmpArg |-> 0, brk |-> FALSE, brkArg |-> 0,
                sched |-> << >>]
        st == ProcessLine(st0, ln, 0, idx)
    IN  AdvancePosition(idx, lnum, st.brk, st.brkArg, st.jmp, st.jmpArg)

\* C1 (as claimed): after a line that holds both a pattern break and a
\* position jump whose parameter is greater than the current order-table
\* index, the next line played is line 0 of the order-table index the jump
\* names.
C1_JumpOverridesBreak ==
    (RowPlayed /\ BreaksOf(line) # {} /\ EffectiveJumpsOf(line, row_index) # {}
       /\ table_index < Len(Table))
        => \E c \in EffectiveJumpsOf(line, row_index) :
              Position = <<line[c].Parameter, 0>>

\* C2: a position jump whose parameter is at most the current order-table
\* index changes neither index nor line: the run continues where it would
\* without that effect, and, in a line without break and without any other
\* jump taken, at the natural successor of the line.
C2_SuppressedJumpIsNoop ==
    RowPlayed =>
        \A c \in JumpsOf(line) :
            line[c].Parameter <= row_index =>
                /\ Position = PositionAfter([line EXCEPT ![c].Effect = 0],
                                            row_index, row_linenum)
                /\ (BreaksOf(line) = {} /\ EffectiveJumpsOf(line, row_index) = {})
                      => Position = NaturalAdvance(row_index, row_linenum)

\* C2 witness: at index 1 a jump to index 1 was seen and the run went on to
\* the next line of the same pattern
C2_Witness ==
    /\ RowPlayed
    /\ row_index = 1
    /\ \E c \in JumpsOf(line) : line[c].Parameter = 1
    /\ BreaksOf(line) = {}
    /\ EffectiveJumpsOf(line, row_index) = {}
    /\ Position = <<1, row_linenum + 1>>

\* the line a pattern break with parameter byte p names
BreakTarget(p) == 10 * (p \div 16) + (p % 16)

\* C3 (as claimed): after a line with a pattern break of parameter p (the
\* last one of the line) and no position jump taken, the run continues at
\* line 10*(p >> 4) + (p & 15) of the next order-table index, for every p.
C3_BreakTargetRow ==
    (RowPlayed /\ BreaksOf(line) # {} /\ EffectiveJumpsOf(line, row_index) = {})
        => Position = <<row_index + 1,
                        BreakTarget(line[LastOf(BreaksOf(line))].Parameter)>>

\* C3 (amended): it is the last pattern break of the line (in channel order)
\* that counts; the run continues at its target line of the next order-table
\* index when that line is below 64, and at line 0 of the index after the
\* next one when the target is 64 or more.
C3_BreakTargetRowAmended ==
    (RowPlayed /\ BreaksOf(line) # {} /\ EffectiveJumpsOf(line, row_index) = {})
        => LET t == BreakTarget(line[LastOf(BreaksOf(line))].Parameter)
           IN  Position = IF t < 64 THEN <<row_index + 1, t>>
                          ELSE <<row_index + 2, 0>>

\* C3 witness: a break with parameter 0x12 resumed at line 12 of the next index
C3_Witness ==
    /\ RowPlayed
    /\ BreaksOf(line) # {}
    /\ EffectiveJumpsOf(line, row_index) = {}
    /\ line[LastOf(BreaksOf(line))].Parameter = 18
    /\ Position = <<row_index + 1, 12>>

\* C4 (as claimed): once the notes of a line are applied, every channel whose
\* note has a nonzero instrument slot has that slot as its instrument, with or
\* without a pitch in the note, and every channel whose note has a nonzero
\* period has that period and playback position 0.
C4_NoteSetsInstrumentAndPitch ==
    NotesApplied =>
        \A c \in 1..Len(line) :
            /\ line[c].Sample # 0 => channels[c - 1].Sample = line[c].Sample
            /\ line[c].Period # 0 =>
                  /\ channels[c - 1].Period = line[c].Period
                  /\ channels[c - 1].SamplePosition = 0

\* C5: a set-speed effect with parameter 0 leaves the scheduled ticks-per-line
\* and tempo as they were, with parameter 1..31 it sets only the scheduled
\* ticks-per-line, with parameter 32..255 only the scheduled tempo; the values
\* in force for the line are not touched by the note loop.
C5_SetSpeedOneOfTwo ==
    NotesApplied =>
        /\ \A c \in 1..Len(line) :
              line[c].Effect = SET_SPEED =>
                 LET v == line[c].Parameter
                     before == sched[c]
                     after == sched[c + 1]
                 IN  /\ v = 0 => after = before
                     /\ (1 <= v /\ v <= 31) => after = <<v, before[2]>>
                     /\ (32 <= v /\ v <= 255) => after = <<before[1], v>>
                     /\ (after[1] = before[1] \/ after[2] = before[2])
        /\ <<next_ticks_per_line, next_bpm>> = sched[Len(sched)]
        /\ <<ticks_per_line, so_called_bpm>> = sched[1]

\* C5 witness: a set-speed effect with parameter 32 changed the scheduled tempo
C5_Witness ==
    /\ NotesApplied
    /\ \E c \in 1..Len(line) :
          /\ line[c].Effect = SET_SPEED
          /\ line[c].Parameter = 32
          /\ sched[c][2] # 32
          /\ sched[c + 1] = <<sched[c][1], 32>>

\* the duration of a played line was computed from the tempo and
\* ticks-per-line scheduled before its first note, 125 and 6 for the first line
DurationFromScheduled ==
    RowPlayed =>
        /\ frames_needed = FramesNeeded(sched[1][2], sched[1][1])
        /\ (row_index = 0 /\ row_linenum = 0) => sched[1] = <<6, 125>>

\* C6: the duration of a line is computed from the tempo and ticks-per-line
\* that were scheduled before its first note (125 and 6 for the first line),
\* whatever set-speed effects the line itself holds; and what a line has
\* scheduled by its last note is what the next line played finds scheduled
\* before its first note.
C6_TempoLatched ==
    /\ []DurationFromScheduled
    /\ [][(RowPlayed /\ pc' = "render") => sched'[1] = sched[Len(sched)]]_vars

\* C6 witness: a line holding a set-speed to tempo 32 was played for the
\* duration of 31 ticks at tempo 125, scheduled by an earlier line
C6_Witness ==
    /\ RowPlayed
    /\ sched[1] = <<31, 125>>
    /\ \E c \in 1..Len(line) : line[c].Effect = SET_SPEED /\ line[c].Parameter = 32
    /\ frames_needed = 27342

\* C7 (as claimed): with the order-table index at or past the end of the
\* order table (an empty table included) generate_wav is before its loop, at
\* the loop's exit test or has left the loop; it has not failed.
C7_StopsPastEnd ==
    table_index >= Len(Table) => pc \in {"start", "top", "done"}

\* ------------------------------------------------------------------------
\* Properties of load_modfile
\* ------------------------------------------------------------------------

\* the instruments the module has, and those declared with length 0
Instruments == 1..(SampleCount - 1)
DeclaredBlank == { n \in Instruments : FileLength(file, n) = 0 }

RECURSIVE DeclaredBytes(_)
DeclaredBytes(n) ==
    IF n <= 0 THEN 0 ELSE DeclaredBytes(n - 1) + FileLength(file, n) * 2

\* the two candidate sizes as the specification states them
SmallSize ==
    20 + 30 * (SampleCount - 1) + 2 + 128 + (IF Format # "" THEN 4 ELSE 0)
    + ChannelCount * 64 * 4 * PatternCount + DeclaredBytes(SampleCount - 1)
LargeSize == SmallSize + 2 * Cardinality(DeclaredBlank)

\* all structural decoding is done and the sizes have been compared
SizeChecked == PatternCount >= 1 /\ pc # "check_size"

\* C8 (as claimed): once a read of load_modfile has come short of the bytes it
\* needs, load_modfile neither returns success nor fails other than by
\* returning an error.
C8_TruncationIsError ==
    short_read => pc \notin {"loaded", "load_panic"}

\* C9: after all structural decoding load_modfile returns the size-mismatch
\* error exactly when the real file size is neither small nor large.
C9_SizeMismatchIff ==
    SizeChecked =>
        ((pc = "failed" /\ err = "filesize")
            <=> (Filesize # SmallSize /\ Filesize # LargeSize))

\* C9 witness: a file fully decoded, one byte longer than small, is rejected
C9_Witness ==
    /\ SizeChecked
    /\ ~short_read
    /\ Filesize = SmallSize + 1
    /\ pc = "failed"
    /\ err = "filesize"

\* the waveform bytes of the instruments declared with length 0 follow the
\* candidate the size matched: 2 each under large, none under small
BlankConvention ==
    \A n \in DeclaredBlank :
        /\ Filesize = LargeSize => Samples[n].DataLen = 2
        /\ Filesize = SmallSize => Samples[n].DataLen = 0

\* C10 (as claimed): on success the real size equals exactly one of small and
\* large, and the instruments declared with length 0 get 2 waveform bytes
\* when it matched large and none when it matched small.
C10_ExactlyOneCandidate ==
    pc = "loaded" =>
        /\ (Filesize = SmallSize) # (Filesize = LargeSize)
        /\ BlankConvention

\* C10 (amended): on success the real size equals small or large; the two
\* differ, and the size equals exactly one of them, whenever some instrument
\* is declared with length 0 (otherwise they are the same number); the
\* instruments declared with length 0 get 2 waveform bytes when the size
\* matched large and none when it matched small.
C10_CandidateDecidesConvention ==
    pc = "loaded" =>
        /\ Filesize \in {SmallSize, LargeSize}
        /\ DeclaredBlank # {} => ((Filesize = SmallSize) # (Filesize = LargeSize))
        /\ DeclaredBlank = {} => SmallSize = LargeSize
        /\ BlankConvention

\* C10 witness: a file matching large was loaded and a blank instrument got
\* its two bytes
C10_Witness ==
    /\ pc = "loaded"
    /\ Filesize = LargeSize
    /\ Filesize # SmallSize
    /\ \E n \in DeclaredBlank : Samples[n].DataLen = 2


\* the offset at which the 128-byte order table ends
TableEnd == 20 + 30 * (SampleCount - 1) + 2 + 128

\* C11: once load_modfile stands before the first pattern note, a file whose
\* 4 bytes at offset 1080 are no known tag has format empty, 4 channels and
\* 16 instrument slots and nothing was consumed after the order table; a file
\* with a known tag has the tag's channel and instrument counts and exactly 4
\* bytes were consumed after the order table.
C11_TagDecidesLayout ==
    pc = "patterns" =>
        IF file.tag \in {"M.K.", "FLT4", "M!K!", "4CHN"}
        THEN Format = file.tag /\ ChannelCount = 4 /\ SampleCount = 32
             /\ rd = TableEnd + 4
        ELSE IF file.tag = "6CHN"
        THEN Format = file.tag /\ ChannelCount = 6 /\ SampleCount = 32
             /\ rd = TableEnd + 4
        ELSE IF file.tag \in {"OCTA", "FLT8", "CD81", "8CHN"}
        THEN Format = file.tag /\ ChannelCount = 8 /\ SampleCount = 32
             /\ rd = TableEnd + 4
        ELSE Format = "" /\ ChannelCount = 4 /\ SampleCount = 16
             /\ rd = TableEnd

\* C11 witness: a file without a known tag stands before its first pattern
\* note, right after the order table at offset 600
C11_Witness ==
    /\ pc = "patterns"
    /\ file.tag = "XXXX"
    /\ Format = ""
    /\ rd = 600

\* C12: after a successful load every value of the order table is below the
\* number of patterns loaded.
C12_TableWithinPatterns ==
    pc = "loaded" => \A n \in 1..Len(Table) : Table[n] < PatternCount

\* C12 witness: a module with 129 positions was loaded, its table holds
\* pattern 2 and ends with the entry past the 128 order bytes
C12_Witness ==
    /\ pc = "loaded"
    /\ Len(Table) = 129
    /\ Table[2] = 2
    /\ Table[129] = 0
    /\ PatternCount = 3

\* the bytes load_modfile consumes for a module of this shape: title,
\* instrument metadata, position count and the byte after it, order table,
\* the tag when there is one, patterns, and the waveforms as stored
ConsumedBytes ==
    20 + 30 * (SampleCount - 1) + 2 + 128 + (IF Format # "" THEN 4 ELSE 0)
    + ChannelCount * 64 * 4 * PatternCount
    + SumLengths([n \in Instruments |-> [Length |-> Samples[n].DataLen \div 2]],
                 SampleCount - 1)

\* C20: on every successful return of load_modfile Unread is 0, and the
\* bytes consumed for the parts of the file sum to the real file size.
C20_NothingUnread ==
    pc = "loaded" => Unread = 0 /\ ConsumedBytes = Filesize

\* C20 witness: a tagged file with blank instruments stored with two bytes
\* each was loaded, and nothing was left unread
C20_Witness ==
    /\ pc = "loaded"
    /\ Format # ""
    /\ DeclaredBlank # {}
    /\ Filesize = LargeSize
    /\ Filesize # SmallSize
    /\ Unread = 0

\* round(44100 * 60 * ticks / (24 * tempo)), halves rounded up
RoundedFrames(tempo, ticks) ==
    (2 * 44100 * 60 * ticks + 24 * tempo) \div (2 * 24 * tempo)

\* C13 (as claimed): the frames produced for a row are
\* round(44100 * 60 * ticks / (24 * tempo)) for the tempo and ticks in force
\* for the row, and the output frame counter advances by that number.
C13_FramesRounded ==
    [][pc = "render" =>
          /\ frames_needed' = RoundedFrames(so_called_bpm, ticks_per_line)
          /\ output_frame' = output_frame + RoundedFrames(so_called_bpm, ticks_per_line)]_vars

\* generate_wav has left its row loop: by the loop's exit test, or by a
\* run-time failure inside it
LoopLeft == pc \in {"done", "panic"}

\* C17: for a module with a non-empty order table the row loop is eventually
\* left, and from one played row to the next the order-table index never
\* decreases and, when it stays the same, the row index strictly increases.
C17_RowLoopTerminates ==
    /\ [](RowPlayed =>
             /\ table_index >= row_index
             /\ (table_index = row_index => linenum > row_linenum))
    /\ ((pc = "top" /\ Len(Table) > 0) ~> LoopLeft)

\* C17 witness: the loop was left by its exit test after a row whose pattern
\* break took play beyond the end of the order table
C17_Witness ==
    /\ pc = "done"
    /\ Len(Table) > 0
    /\ BreaksOf(line) # {}
    /\ table_index > Len(Table)

\* C18 (as claimed): when the frame loop is about to look up the instrument
\* of a channel that plays, the channel's slot is an index of the module's
\* instrument table.
C18_SlotIsValidIndex ==
    pc = "render" =>
        \A c \in DOMAIN channels :
            channels[c].Period # 0 => channels[c].Sample \in DOMAIN Samples

\* the frame count of the wav channel chan plays
PlayedFrameCount(chan) == WavFrameCount(Samples[chan.Sample], chan.Period)

\* channel chan plays an instrument that has a waveform
Sounding(chan) ==
    /\ chan.Period # 0
    /\ Samples[chan.Sample] # NilSample
    /\ Samples[chan.Sample].Length >= 2

\* C14: in one pass of the frame loop, for a playing channel whose position
\* has reached the frame count of its wav: with a loop length above 1 the
\* position is set to loop_offset*2 (the frame played is that one, and the
\* channel goes on from there) and the channel keeps its pitch; otherwise the
\* pitch becomes 0 and nothing is emitted.  With the position below the frame
\* count the frame at the position is emitted and the position advances by
\* one.  A channel with pitch 0 emits nothing and stays as it is, and its
\* pitch becomes nonzero only by a row's note with a nonzero period.
C14_FramePass ==
    [][/\ (pc = "frame" /\ pc' = "frame") =>
            \A c \in DOMAIN channels :
                LET ch == channels[c]
                    ch2 == channels'[c]
                    got == frame_read'[c]
                    pos == ch.SamplePosition
                    R == Samples[ch.Sample].RepOffset * 2
                IN  /\ Sounding(ch) /\ pos >= PlayedFrameCount(ch)
                          /\ Samples[ch.Sample].RepLength > 1
                       => got = R /\ ch2 = [ch EXCEPT !.SamplePosition = R + 1]
                    /\ Sounding(ch) /\ pos >= PlayedFrameCount(ch)
                          /\ ~(Samples[ch.Sample].RepLength > 1)
                       => got = -1 /\ ch2.Period = 0
                    /\ Sounding(ch) /\ pos < PlayedFrameCount(ch)
                       => got = pos /\ ch2 = [ch EXCEPT !.SamplePosition = pos + 1]
                    /\ ch.Period = 0 => got = -1 /\ ch2 = ch
       /\ \A c \in DOMAIN channels :
            channels[c].Period = 0 /\ channels'[c].Period # 0
            => pc = "top" /\ line'[c + 1].Period # 0]_vars

\* C14 witness: channel 0 has played its 42 frames, looped back to frame 6
\* and goes on from there
C14_Witness ==
    /\ pc = "frame"
    /\ channels[0].Period = 428
    /\ Samples[1].RepLength = 2
    /\ Samples[1].RepOffset = 3
    /\ frame_n = 43
    /\ frame_read[0] = 6
    /\ channels[0].SamplePosition = 7

\* C19 (as claimed): whenever a pass of the frame loop has read a frame of a
\* wav, the position it read at is below the wav's frame count, also in the
\* pass that loops back to loop_offset*2.
C19_ReadWithinWav ==
    pc = "frame" =>
        \A c \in DOMAIN frame_read :
            frame_read[c] # -1 => frame_read[c] < PlayedFrameCount(channels[c])

\* the value at fraction num / den of the way from a to b, cut to an integer
LinearInterpolation(a, b, num, den) ==
    LET t == a * den + (b - a) * num
    IN  IF t >= 0 THEN t \div den ELSE -((-t) \div den)

\* C15 (as claimed): after MakeWav every frame n but the last is the linear
\* interpolation between the converted raw samples at floor(idx_f) and
\* floor(idx_f) + 1, weighted by the fractional part of
\* idx_f = (n / (output_count - 1)) * (raw_count - 1); the last frame is the
\* converted last raw sample.
C15_FramesInterpolated ==
    (pc = "mk_done" /\ mk_count >= 2) =>
        /\ \A n \in 0..(mk_count - 2) :
             LET num == n * (mk_len - 1)
                 den == mk_count - 1
                 index == num \div den
             IN  mk_wav[n] =
                     LinearInterpolation(byte_to_int16(mk_data[index + 1]),
                                         byte_to_int16(mk_data[index + 2]),
                                         num % den, den)
        /\ mk_wav[mk_count - 1] = byte_to_int16(mk_data[mk_len])

\* round(a * b / d), for a < 2^30, b < 2^14 and d < 2^22, in steps that stay
\* below 2^31
MulDivRound(a, b, d) ==
    LET bh == b \div 128
        bl == b % 128
        u == (a % d) * bh
        s == (u % d) * 128 + (a % d) * bl
        whole == (a \div d) * b + (u \div d) * 128 + s \div d
    IN  IF 2 * (s % d) >= d THEN whole + 1 ELSE whole

\* C16 (as claimed): for a sample of 2 words or more the frame count is
\* round(44100 * raw_byte_count / source_rate) with
\* source_rate = 3563219 / period, 44100 * raw_byte_count does not exceed 32
\* bits, and the frame count is at least 1.
C16_FrameCountRounded ==
    pc = "mk_counted" =>
        /\ 11025 * mk_len < Pow2(30)
        /\ mk_count = MulDivRound(11025 * mk_len, 4 * mk_period, AMIGA_CLOCK)
        /\ mk_count >= 1

=============================================================================
